---- MODULE Spec2Model ----
(***************************************************************************)
(* Model of the LTR-559 light/proximity sensor driver (iohe/ltr-559).     *)
(*                                                                         *)
(* The state is the driver session (lib.rs, struct Ltr559: address,        *)
(* als_gain, als_int) together with what the I2C transport has seen: the   *)
(* byte last written successfully to each device register (dev) and the   *)
(* bus transactions of the most recent operation (bus).  Each public       *)
(* operation of device_impl.rs is one action; the outcome of every bus     *)
(* transaction (success, transport error, byte read) is an input.          *)
(***************************************************************************)
EXTENDS Integers, Sequences, FiniteSets, TLC

VARIABLES
    nops,      \* number of operations performed on the session so far
    address,   \* Ltr559.address (the SlaveAddr given to new_device)
    als_gain,  \* Ltr559.als_gain, the cached gain
    als_int,   \* Ltr559.als_int, the cached integration time
    dev,       \* register -> byte last written successfully (NoWrite if none)
    sync_gain, \* gain of the last successful ALS_CONTR write since the cache
               \* was last initialised or reset ("none" if none)
    sync_int,  \* likewise the integration time and ALS_MEAS_RATE
    op,        \* name of the most recent operation
    arg,       \* its arguments
    bus,       \* the bus transactions it issued, in order
    ret        \* its result

vars ==
    <<nops, address, als_gain, als_int, dev, sync_gain, sync_int, op, arg, bus,
      ret>>

----------------------------------------------------------------------------
(* Bounds of the model *)

\* Longest sequence of operations explored on one session.
MaxOps == 2

----------------------------------------------------------------------------
(* Register map: device_impl.rs, impl Register *)

ALS_CONTR == 128
PS_CONTR == 129
PS_LED == 130
PS_N_PULSES == 131
PS_MEAS_RATE == 132
ALS_MEAS_RATE == 133
PART_ID == 134
MANUFAC_ID == 135
ALS_DATA_CH1_0 == 136
ALS_DATA_CH1_1 == 137
ALS_DATA_CH0_0 == 138
ALS_DATA_CH0_1 == 139
ALS_PS_STATUS == 140
PS_DATA_0 == 141
PS_DATA_1 == 142
INTERRUPT == 143
PS_THRES_UP_0 == 144
PS_THRES_UP_1 == 145
PS_THRES_LOW_0 == 146
PS_THRES_LOW_1 == 147
PS_OFFSET_0 == 148
PS_OFFSET_1 == 149
ALS_THRES_UP_0 == 151
ALS_THRES_UP_1 == 152
ALS_THRES_LOW_0 == 153
ALS_THRES_LOW_1 == 154
INTERRUPT_PERSIST == 158

\* The registers the driver writes.
WriteRegs ==
    {ALS_CONTR, PS_CONTR, PS_LED, PS_N_PULSES, PS_MEAS_RATE, ALS_MEAS_RATE,
     INTERRUPT, PS_THRES_UP_0, PS_THRES_UP_1, PS_THRES_LOW_0, PS_THRES_LOW_1,
     PS_OFFSET_0, PS_OFFSET_1, ALS_THRES_UP_0, ALS_THRES_UP_1,
     ALS_THRES_LOW_0, ALS_THRES_LOW_1, INTERRUPT_PERSIST}

(* Bit masks: device_impl.rs, impl BitFlags *)

R8C_PS_DATA_STATUS == 1
R8C_PS_INTERRUPT_STATUS == 2
R8C_ALS_DATA_STATUS == 4
R8C_ALS_INTERRUPT_STATUS == 8
R8C_ALS_DATA_VALID == 128
R8C_ALS_GAIN == 112
R8E_PS_SATURATION == 128

----------------------------------------------------------------------------
(* Machine integers: u8 and u16 values and the bit operators the code uses *)

U8 == 0..255
U16 == 0..65535

RECURSIVE BitAnd(_, _)
BitAnd(a, b) ==
    IF a = 0 \/ b = 0 THEN 0
    ELSE (a % 2) * (b % 2) + 2 * BitAnd(a \div 2, b \div 2)

RECURSIVE BitOr(_, _)
BitOr(a, b) ==
    IF a = 0 THEN b
    ELSE IF b = 0 THEN a
    ELSE (IF a % 2 = 1 \/ b % 2 = 1 THEN 1 ELSE 0)
         + 2 * BitOr(a \div 2, b \div 2)

\* a << n and a >> n on a w-bit unsigned integer
Shl(a, n, w) == (a * 2^n) % 2^w
Shr(a, n) == a \div 2^n

----------------------------------------------------------------------------
(* Configuration enumerations and their encoders: types.rs, lib.rs *)

AlsGain == {"Gain1x", "Gain2x", "Gain4x", "Gain8x", "Gain48x", "Gain96x"}
AlsGain_default == "Gain1x"

AlsGain_value(g) ==
    CASE g = "Gain1x" -> Shl(0, 2, 8)
      [] g = "Gain2x" -> Shl(1, 2, 8)
      [] g = "Gain4x" -> Shl(2, 2, 8)
      [] g = "Gain8x" -> Shl(3, 2, 8)
      [] g = "Gain48x" -> Shl(6, 2, 8)
      [] g = "Gain96x" -> Shl(7, 2, 8)

\* f32 factors are kept as exact fractions num/den
AlsGain_lux_compute_value(g) ==
    CASE g = "Gain1x" -> [num |-> 1, den |-> 1]
      [] g = "Gain2x" -> [num |-> 2, den |-> 1]
      [] g = "Gain4x" -> [num |-> 4, den |-> 1]
      [] g = "Gain8x" -> [num |-> 8, den |-> 1]
      [] g = "Gain48x" -> [num |-> 48, den |-> 1]
      [] g = "Gain96x" -> [num |-> 96, den |-> 1]

LedPulse ==
    {"Pulse30", "Pulse40", "Pulse50", "Pulse60",
     "Pulse70", "Pulse80", "Pulse90", "Pulse100"}

LedPulse_value(p) ==
    CASE p = "Pulse30" -> Shl(0, 5, 8)
      [] p = "Pulse40" -> Shl(1, 5, 8)
      [] p = "Pulse50" -> Shl(2, 5, 8)
      [] p = "Pulse60" -> Shl(3, 5, 8)
      [] p = "Pulse70" -> Shl(4, 5, 8)
      [] p = "Pulse80" -> Shl(5, 5, 8)
      [] p = "Pulse90" -> Shl(6, 5, 8)
      [] p = "Pulse100" -> Shl(7, 5, 8)

LedDutyCycle == {"_25", "_50", "_75", "_100"}

LedDutyCycle_value(d) ==
    CASE d = "_25" -> Shl(0, 3, 8)
      [] d = "_50" -> Shl(1, 3, 8)
      [] d = "_75" -> Shl(2, 3, 8)
      [] d = "_100" -> Shl(3, 3, 8)

LedCurrent == {"_5mA", "_10mA", "_20mA", "_50mA", "_100mA"}

LedCurrent_value(c) ==
    CASE c = "_5mA" -> 0
      [] c = "_10mA" -> 1
      [] c = "_20mA" -> 2
      [] c = "_50mA" -> 3
      [] c = "_100mA" -> 7

PsMeasRate ==
    {"_50ms", "_70ms", "_100ms", "_200ms", "_500ms", "_1000ms", "_2000ms",
     "_10ms"}

PsMeasRate_value(r) ==
    CASE r = "_10ms" -> 8
      [] r = "_50ms" -> 0
      [] r = "_70ms" -> 1
      [] r = "_100ms" -> 2
      [] r = "_200ms" -> 3
      [] r = "_500ms" -> 4
      [] r = "_1000ms" -> 5
      [] r = "_2000ms" -> 6

AlsMeasRate == {"_50ms", "_100ms", "_200ms", "_500ms", "_1000ms", "_2000ms"}

AlsMeasRate_value(r) ==
    CASE r = "_50ms" -> 0
      [] r = "_100ms" -> 1
      [] r = "_200ms" -> 2
      [] r = "_500ms" -> 3
      [] r = "_1000ms" -> 4
      [] r = "_2000ms" -> 7

AlsIntTime ==
    {"_50ms", "_100ms", "_150ms", "_200ms", "_250ms", "_300ms", "_350ms",
     "_400ms"}
AlsIntTime_default == "_100ms"

AlsIntTime_value(t) ==
    CASE t = "_100ms" -> 0
      [] t = "_50ms" -> 1
      [] t = "_200ms" -> 2
      [] t = "_400ms" -> 3
      [] t = "_150ms" -> 4
      [] t = "_250ms" -> 5
      [] t = "_300ms" -> 6
      [] t = "_350ms" -> 7

AlsIntTime_lux_compute_value(t) ==
    CASE t = "_100ms" -> [num |-> 1, den |-> 1]
      [] t = "_50ms" -> [num |-> 1, den |-> 2]
      [] t = "_200ms" -> [num |-> 2, den |-> 1]
      [] t = "_400ms" -> [num |-> 4, den |-> 1]
      [] t = "_150ms" -> [num |-> 3, den |-> 2]
      [] t = "_250ms" -> [num |-> 5, den |-> 2]
      [] t = "_300ms" -> [num |-> 3, den |-> 1]
      [] t = "_350ms" -> [num |-> 7, den |-> 2]

\* AlsPersist and PsPersist have the same sixteen variants.
Persist ==
    {"EveryTime", "_2v", "_3v", "_4v", "_5v", "_6v", "_7v", "_8v", "_9v",
     "_10v", "_11v", "_12v", "_13v", "_14v", "_15v", "_16v"}

AlsPersist_value(p) ==
    CASE p = "EveryTime" -> 0
      [] p = "_2v" -> 1
      [] p = "_3v" -> 2
      [] p = "_4v" -> 3
      [] p = "_5v" -> 4
      [] p = "_6v" -> 5
      [] p = "_7v" -> 6
      [] p = "_8v" -> 7
      [] p = "_9v" -> 8
      [] p = "_10v" -> 9
      [] p = "_11v" -> 10
      [] p = "_12v" -> 11
      [] p = "_13v" -> 12
      [] p = "_14v" -> 13
      [] p = "_15v" -> 14
      [] p = "_16v" -> 15

PsPersist_value(p) ==
    CASE p = "EveryTime" -> 0
      [] p = "_2v" -> Shl(1, 4, 8)
      [] p = "_3v" -> Shl(2, 4, 8)
      [] p = "_4v" -> Shl(3, 4, 8)
      [] p = "_5v" -> Shl(4, 4, 8)
      [] p = "_6v" -> Shl(5, 4, 8)
      [] p = "_7v" -> Shl(6, 4, 8)
      [] p = "_8v" -> Shl(7, 4, 8)
      [] p = "_9v" -> Shl(8, 4, 8)
      [] p = "_10v" -> Shl(9, 4, 8)
      [] p = "_11v" -> Shl(10, 4, 8)
      [] p = "_12v" -> Shl(11, 4, 8)
      [] p = "_13v" -> Shl(12, 4, 8)
      [] p = "_14v" -> Shl(13, 4, 8)
      [] p = "_15v" -> Shl(14, 4, 8)
      [] p = "_16v" -> Shl(15, 4, 8)

InterruptMode == {"Inactive", "OnlyPS", "OnlyALS", "Both"}

InterruptMode_value(m) ==
    CASE m = "Inactive" -> 0
      [] m = "OnlyPS" -> 1
      [] m = "OnlyALS" -> 2
      [] m = "Both" -> 3

InterruptPinPolarity == {"Low", "High"}

InterruptPinPolarity_value(p) ==
    CASE p = "Low" -> 0
      [] p = "High" -> Shl(1, 2, 8)

\* The variants of SlaveAddr; address.addr() is outside the modelled source
\* and is kept uninterpreted.
SlaveAddr ==
    {"Default", "Alternative(false,false)", "Alternative(false,true)",
     "Alternative(true,false)", "Alternative(true,true)"}

----------------------------------------------------------------------------
(* Results: Result<T, Error<E>> of lib.rs.  The payload of Ok is <<>> for  *)
(* () and a record otherwise: [byte] for a u8, [ch0, ch1] for the raw     *)
(* channels, [value, saturated] for the proximity data.                    *)

Ok(v) == [tag |-> "Ok", err |-> "none", val |-> v]
ErrI2C(e) == [tag |-> "I2C", err |-> e, val |-> <<>>]
ErrInvalidInputData == [tag |-> "InvalidInputData", err |-> "none", val |-> <<>>]
\* An arithmetic-overflow panic of a build with overflow checks.
Panicked == [tag |-> "Panic", err |-> "none", val |-> <<>>]

IsOk(r) == r.tag = "Ok"

----------------------------------------------------------------------------
(* The I2C transport (embedded-hal Write / WriteRead), an external           *)
(* collaborator: every call either succeeds or fails with one of its errors. *)

I2cErrors == {"Nack", "ArbitrationLoss"}

NoWrite == 0 - 1

WriteOutcomes(errors) ==
    {[ok |-> TRUE, err |-> "none", data |-> 0]}
        \cup {[ok |-> FALSE, err |-> e, data |-> 0] : e \in errors}

ReadOutcomes(bytes, errors) ==
    {[ok |-> TRUE, err |-> "none", data |-> b] : b \in bytes}
        \cup {[ok |-> FALSE, err |-> e, data |-> 0] : e \in errors}

\* The session an operation starts from; its bus log starts empty.
Self ==
    [address |-> address, als_gain |-> als_gain, als_int |-> als_int,
     dev |-> dev, bus |-> <<>>]

\* The outcome the transport gives the next transaction of the operation.
NextOutcome(s, io) == io[Len(s.bus) + 1]

\* fn write_register: one i2c.write of [register, value], map_err(Error::I2C)
write_register(s, register, value, io) ==
    LET o == NextOutcome(s, io)
        tx == [kind |-> "write", addr |-> s.address, reg |-> register,
               val |-> value, ok |-> o.ok, err |-> o.err]
    IN  [s |-> [s EXCEPT !.bus = Append(@, tx),
                         !.dev = IF o.ok THEN [@ EXCEPT ![register] = value]
                                 ELSE @],
         r |-> IF o.ok THEN Ok(<<>>) ELSE ErrI2C(o.err)]

\* Mutant: or(Ok(data[0])) for and(Ok(data[0])): a failed read is taken
\* for a successful one.
read_register_or(s, register, io) ==
    LET o == NextOutcome(s, io)
        tx == [kind |-> "read", addr |-> s.address, reg |-> register,
               val |-> o.data, ok |-> o.ok, err |-> o.err]
    IN  [s |-> [s EXCEPT !.bus = Append(@, tx)], r |-> Ok([byte |-> o.data])]

\* fn read_register: one i2c.write_read of one byte, map_err, and(Ok(data[0]))
read_register(s, register, io) ==
    LET o == NextOutcome(s, io)
        tx == [kind |-> "read", addr |-> s.address, reg |-> register,
               val |-> o.data, ok |-> o.ok, err |-> o.err]
    IN  [s |-> [s EXCEPT !.bus = Append(@, tx)],
         r |-> IF o.ok THEN Ok([byte |-> o.data]) ELSE ErrI2C(o.err)]

----------------------------------------------------------------------------
(* The operations of device_impl.rs, as functions from the session, the     *)
(* arguments and the transport outcomes io to the new session s and the     *)
(* result r.                                                                *)

\* Mutant: the cache is updated before the outcome of the write is known.
set_als_contr_cache_first(s, gain, sw_reset, als_active, io) ==
    LET v0 == AlsGain_value(gain)
        v1 == IF sw_reset THEN v0 + 2 ELSE v0
        value == IF als_active THEN v1 + 1 ELSE v1
        w == write_register([s EXCEPT !.als_gain = gain], ALS_CONTR, value, io)
    IN  w

\* Mutant: the increments of sw_reset and als_active are exchanged.
set_als_contr_flags_swapped(s, gain, sw_reset, als_active, io) ==
    LET v0 == AlsGain_value(gain)
        v1 == IF sw_reset THEN v0 + 1 ELSE v0
        value == IF als_active THEN v1 + 2 ELSE v1
        w == write_register(s, ALS_CONTR, value, io)
    IN  IF ~IsOk(w.r) THEN w
        ELSE [s |-> [w.s EXCEPT !.als_gain = gain], r |-> Ok(<<>>)]

set_als_contr(s, gain, sw_reset, als_active, io) ==
    LET v0 == AlsGain_value(gain)
        v1 == IF sw_reset THEN v0 + 2 ELSE v0
        value == IF als_active THEN v1 + 1 ELSE v1
        w == write_register(s, ALS_CONTR, value, io)
    IN  IF ~IsOk(w.r) THEN w
        ELSE [s |-> [w.s EXCEPT !.als_gain = gain], r |-> Ok(<<>>)]

set_ps_contr(s, ps_saturation_indicator_enable, ps_active, io) ==
    LET v0 == 0
        v1 == IF ps_saturation_indicator_enable THEN v0 + Shl(1, 5, 8) ELSE v0
        value == IF ps_active THEN v1 + 3 ELSE v1
    IN  write_register(s, PS_CONTR, value, io)

set_ps_led(s, led_pulse_freq, led_duty_cycle, led_peak_current, io) ==
    LET v0 == LedPulse_value(led_pulse_freq)
        v1 == BitOr(v0, LedDutyCycle_value(led_duty_cycle))
        value == BitOr(v1, LedCurrent_value(led_peak_current))
    IN  write_register(s, PS_LED, value, io)

\* Mutant: the PS count is written unshifted, over the ALS count.
set_interrupt_persist_unshifted(s, als_count, ps_count, io) ==
    LET value == BitOr(AlsPersist_value(ps_count), AlsPersist_value(als_count))
    IN  write_register(s, INTERRUPT_PERSIST, value, io)

set_interrupt_persist(s, als_count, ps_count, io) ==
    LET value == BitOr(PsPersist_value(ps_count), AlsPersist_value(als_count))
    IN  write_register(s, INTERRUPT_PERSIST, value, io)

\* Mutant: the cache is updated before the outcome of the write is known.
set_als_meas_rate_cache_first(s, int_time, als_meas_rate, io) ==
    LET value == BitOr(Shl(AlsIntTime_value(int_time), 3, 8),
                       AlsMeasRate_value(als_meas_rate))
    IN  write_register([s EXCEPT !.als_int = int_time], ALS_MEAS_RATE,
                       value, io)

set_als_meas_rate(s, int_time, als_meas_rate, io) ==
    LET value == BitOr(Shl(AlsIntTime_value(int_time), 3, 8),
                       AlsMeasRate_value(als_meas_rate))
        w == write_register(s, ALS_MEAS_RATE, value, io)
    IN  IF ~IsOk(w.r) THEN w
        ELSE [s |-> [w.s EXCEPT !.als_int = int_time], r |-> Ok(<<>>)]

\* Mutant: the high byte is written first.
set_limit_raw_high_first(s, reg_0, reg_1, value, io) ==
    LET low == BitAnd(value, 255)
        high == BitAnd(Shr(value, 8), 255)
        w1 == write_register(s, reg_1, high, io)
    IN  IF ~IsOk(w1.r) THEN w1
        ELSE write_register(w1.s, reg_0, low, io)

\* The body shared by the four set_*_limit_raw operations, which differ
\* only in their register pair.
set_limit_raw(s, reg_0, reg_1, value, io) ==
    LET low == BitAnd(value, 255)
        high == BitAnd(Shr(value, 8), 255)
        w0 == write_register(s, reg_0, low, io)
    IN  IF ~IsOk(w0.r) THEN w0
        ELSE LET w1 == write_register(w0.s, reg_1, high, io)
             IN  IF ~IsOk(w1.r) THEN w1
                 ELSE [s |-> w1.s, r |-> Ok(<<>>)]

set_als_low_limit_raw(s, value, io) ==
    set_limit_raw(s, ALS_THRES_LOW_0, ALS_THRES_LOW_1, value, io)

set_als_high_limit_raw(s, value, io) ==
    set_limit_raw(s, ALS_THRES_UP_0, ALS_THRES_UP_1, value, io)

set_ps_low_limit_raw(s, value, io) ==
    set_limit_raw(s, PS_THRES_LOW_0, PS_THRES_LOW_1, value, io)

set_ps_high_limit_raw(s, value, io) ==
    set_limit_raw(s, PS_THRES_UP_0, PS_THRES_UP_1, value, io)

set_ps_meas_rate(s, ps_meas_rate, io) ==
    write_register(s, PS_MEAS_RATE, PsMeasRate_value(ps_meas_rate), io)

\* Mutant: the range check is off by one.
set_ps_offset_off_by_one(s, value, io) ==
    IF value >= 1023 THEN [s |-> s, r |-> ErrInvalidInputData]
    ELSE LET w0 == write_register(s, PS_OFFSET_0, BitAnd(value, 255), io)
         IN  IF ~IsOk(w0.r) THEN w0
             ELSE write_register(w0.s, PS_OFFSET_1,
                                 BitAnd(Shr(value, 8), 255), io)

set_ps_offset(s, value, io) ==
    IF value > 1023 THEN [s |-> s, r |-> ErrInvalidInputData]
    ELSE LET ps_offset_0 == BitAnd(value, 255)
             ps_offset_1 == BitAnd(Shr(value, 8), 255)
             w0 == write_register(s, PS_OFFSET_0, ps_offset_0, io)
         IN  IF ~IsOk(w0.r) THEN w0
             ELSE write_register(w0.s, PS_OFFSET_1, ps_offset_1, io)

\* Mutant: the upper bound is inclusive.
set_ps_n_pulses_inclusive(s, value, io) ==
    IF value > 0 /\ value <= 16
    THEN write_register(s, PS_N_PULSES, value, io)
    ELSE [s |-> s, r |-> ErrInvalidInputData]

set_ps_n_pulses(s, value, io) ==
    IF value > 0 /\ value < 16
    THEN write_register(s, PS_N_PULSES, value, io)
    ELSE [s |-> s, r |-> ErrInvalidInputData]

set_interrupt(s, polarity, mode, io) ==
    LET value == BitOr(InterruptMode_value(mode),
                       InterruptPinPolarity_value(polarity))
    IN  write_register(s, INTERRUPT, value, io)

\* Mutant: als_data_valid is the data-valid bit itself, not its inverse.
get_status_not_inverted(s, io) ==
    LET rd == read_register(s, ALS_PS_STATUS, io)
        config == rd.r.val.byte
    IN  IF ~IsOk(rd.r) THEN rd
        ELSE [s |-> rd.s,
              r |-> Ok([ps_data_status |->
                            BitAnd(config, R8C_PS_DATA_STATUS) # 0,
                        ps_interrupt_status |->
                            BitAnd(config, R8C_PS_INTERRUPT_STATUS) # 0,
                        als_data_status |->
                            BitAnd(config, R8C_ALS_DATA_STATUS) # 0,
                        als_interrupt_status |->
                            BitAnd(config, R8C_ALS_INTERRUPT_STATUS) # 0,
                        als_gain |-> Shr(BitAnd(config, R8C_ALS_GAIN), 4),
                        als_data_valid |->
                            BitAnd(config, R8C_ALS_DATA_VALID)
                                = R8C_ALS_DATA_VALID])]

\* Mutant: the gain field is returned unshifted.
get_status_gain_unshifted(s, io) ==
    LET rd == read_register(s, ALS_PS_STATUS, io)
        config == rd.r.val.byte
    IN  IF ~IsOk(rd.r) THEN rd
        ELSE [s |-> rd.s,
              r |-> Ok([ps_data_status |->
                            BitAnd(config, R8C_PS_DATA_STATUS) # 0,
                        ps_interrupt_status |->
                            BitAnd(config, R8C_PS_INTERRUPT_STATUS) # 0,
                        als_data_status |->
                            BitAnd(config, R8C_ALS_DATA_STATUS) # 0,
                        als_interrupt_status |->
                            BitAnd(config, R8C_ALS_INTERRUPT_STATUS) # 0,
                        als_gain |-> BitAnd(config, R8C_ALS_GAIN),
                        als_data_valid |->
                            BitAnd(config, R8C_ALS_DATA_VALID)
                                # R8C_ALS_DATA_VALID])]

get_status(s, io) ==
    LET rd == read_register(s, ALS_PS_STATUS, io)
        config == rd.r.val.byte
    IN  IF ~IsOk(rd.r) THEN rd
        ELSE [s |-> rd.s,
              r |-> Ok([ps_data_status |->
                            BitAnd(config, R8C_PS_DATA_STATUS) # 0,
                        ps_interrupt_status |->
                            BitAnd(config, R8C_PS_INTERRUPT_STATUS) # 0,
                        als_data_status |->
                            BitAnd(config, R8C_ALS_DATA_STATUS) # 0,
                        als_interrupt_status |->
                            BitAnd(config, R8C_ALS_INTERRUPT_STATUS) # 0,
                        als_gain |-> Shr(BitAnd(config, R8C_ALS_GAIN), 4),
                        als_data_valid |->
                            BitAnd(config, R8C_ALS_DATA_VALID)
                                # R8C_ALS_DATA_VALID])]

get_manufacturer_id(s, io) == read_register(s, MANUFAC_ID, io)

get_part_id(s, io) == read_register(s, PART_ID, io)

\* The loop "for i in 0..4" of get_als_raw_data; i and measurements are
\* 1-based here.
RECURSIVE read_measurements(_, _, _, _, _)
read_measurements(s, regs, i, measurements, io) ==
    IF i > Len(regs) THEN [s |-> s, r |-> Ok([measurements |-> measurements])]
    ELSE LET rd == read_register(s, regs[i], io)
         IN  IF ~IsOk(rd.r) THEN rd
             ELSE read_measurements(rd.s, regs, i + 1,
                                    [measurements EXCEPT ![i] = rd.r.val.byte],
                                    io)

\* Mutant: the pair is returned as (ch1, ch0).
get_als_raw_data_swapped(s, io) ==
    LET regs == <<ALS_DATA_CH1_0, ALS_DATA_CH1_1,
                  ALS_DATA_CH0_0, ALS_DATA_CH0_1>>
        m == read_measurements(s, regs, 1, <<0, 0, 0, 0>>, io)
        measurements == m.r.val.measurements
        ch1 == Shl(measurements[2], 8, 16) + measurements[1]
        ch0 == Shl(measurements[4], 8, 16) + measurements[3]
    IN  IF ~IsOk(m.r) THEN m
        ELSE [s |-> m.s, r |-> Ok([ch0 |-> ch1, ch1 |-> ch0])]

\* Returns (ch0, ch1).
get_als_raw_data(s, io) ==
    LET regs == <<ALS_DATA_CH1_0, ALS_DATA_CH1_1,
                  ALS_DATA_CH0_0, ALS_DATA_CH0_1>>
        m == read_measurements(s, regs, 1, <<0, 0, 0, 0>>, io)
        measurements == m.r.val.measurements
        ch1 == Shl(measurements[2], 8, 16) + measurements[1]
        ch0 == Shl(measurements[4], 8, 16) + measurements[3]
    IN  IF ~IsOk(m.r) THEN m
        ELSE [s |-> m.s, r |-> Ok([ch0 |-> ch0, ch1 |-> ch1])]

\* Exact fractions stand for the f32 values of get_lux.  als_data_ch1 *
\* 1000.0 is a multiple of 8 below 2^26 and so exact in f32; the quotient
\* by the u16 sum is rounded once, and a quotient different from a
\* threshold t differs from it by at least 10/65535, far more than the
\* rounding: ratio < t in f32 exactly when num < t * den.
RatLt(q, t) == q.num < t * q.den

ch0_c == <<17743, 42785, 5926, 0>>
ch1_c == <<0 - 11059, 19548, 0 - 1185, 0>>

\* Integers beyond 32 bits are kept in two limbs: [hi, lo] stands for
\* hi * 100 + lo with lo in 0..99, so equal numbers have equal limbs and
\* the number is negative exactly when hi is.
Limbs(h, l) == [hi |-> h + (l \div 100), lo |-> l % 100]

\* a * b - c * d
MulSub(a, b, c, d) ==
    Limbs(a * (b \div 100) - c * (d \div 100), a * (b % 100) - c * (d % 100))

\* n * k for a small k >= 0
Scale(n, k) == Limbs(n.hi * k, n.lo * k)

\* Mutant: every ratio from 450 on selects row 1.
get_lux_two_rows(s, overflow_checks, io) ==
    LET raw == get_als_raw_data(s, io)
        als_data_ch0 == raw.r.val.ch0
        als_data_ch1 == raw.r.val.ch1
        total == als_data_ch1 + als_data_ch0
        sum == total % 65536
        ratio == IF sum = 0 THEN [num |-> 1000, den |-> 1]
                 ELSE [num |-> als_data_ch1 * 1000, den |-> sum]
        index_co == IF RatLt(ratio, 450) THEN 0 ELSE 1
        int_f == AlsIntTime_lux_compute_value(s.als_int)
        gain_f == AlsGain_lux_compute_value(s.als_gain)
        lux_num == Scale(MulSub(als_data_ch0, ch0_c[index_co + 1],
                                als_data_ch1, ch1_c[index_co + 1]),
                         int_f.den * gain_f.den)
        lux_den == 10000 * int_f.num * gain_f.num
    IN  IF ~IsOk(raw.r) THEN raw
        ELSE IF total > 65535 /\ overflow_checks
             THEN [s |-> raw.s, r |-> Panicked]
        ELSE [s |-> raw.s,
              r |-> Ok([index_co |-> index_co,
                        num |-> lux_num, den |-> lux_den])]

\* Mutant: the result is not divided by the factor of the cached gain.
get_lux_gain_ignored(s, overflow_checks, io) ==
    LET raw == get_als_raw_data(s, io)
        als_data_ch0 == raw.r.val.ch0
        als_data_ch1 == raw.r.val.ch1
        total == als_data_ch1 + als_data_ch0
        sum == total % 65536
        ratio == IF sum = 0 THEN [num |-> 1000, den |-> 1]
                 ELSE [num |-> als_data_ch1 * 1000, den |-> sum]
        index_co == IF RatLt(ratio, 450) THEN 0
                    ELSE IF RatLt(ratio, 640) THEN 1
                    ELSE IF RatLt(ratio, 850) THEN 2
                    ELSE 3
        int_f == AlsIntTime_lux_compute_value(s.als_int)
        gain_f == AlsGain_lux_compute_value(AlsGain_default)
        lux_num == Scale(MulSub(als_data_ch0, ch0_c[index_co + 1],
                                als_data_ch1, ch1_c[index_co + 1]),
                         int_f.den * gain_f.den)
        lux_den == 10000 * int_f.num * gain_f.num
    IN  IF ~IsOk(raw.r) THEN raw
        ELSE IF total > 65535 /\ overflow_checks
             THEN [s |-> raw.s, r |-> Panicked]
        ELSE [s |-> raw.s,
              r |-> Ok([index_co |-> index_co,
                        num |-> lux_num, den |-> lux_den])]

\* overflow_checks: whether the build panics on integer overflow (a debug
\* build) or wraps (a release build) in the u16 sum als_data_ch1 +
\* als_data_ch0.  index_co is 0-based as in the code.  The result carries
\* index_co and the lux value as the exact fraction num/den, num in limbs.
get_lux(s, overflow_checks, io) ==
    LET raw == get_als_raw_data(s, io)
        als_data_ch0 == raw.r.val.ch0
        als_data_ch1 == raw.r.val.ch1
        total == als_data_ch1 + als_data_ch0
        sum == total % 65536
        ratio == IF sum = 0 THEN [num |-> 1000, den |-> 1]
                 ELSE [num |-> als_data_ch1 * 1000, den |-> sum]
        index_co == IF RatLt(ratio, 450) THEN 0
                    ELSE IF RatLt(ratio, 640) THEN 1
                    ELSE IF RatLt(ratio, 850) THEN 2
                    ELSE 3
        int_f == AlsIntTime_lux_compute_value(s.als_int)
        gain_f == AlsGain_lux_compute_value(s.als_gain)
        lux_num == Scale(MulSub(als_data_ch0, ch0_c[index_co + 1],
                                als_data_ch1, ch1_c[index_co + 1]),
                         int_f.den * gain_f.den)
        lux_den == 10000 * int_f.num * gain_f.num
    IN  IF ~IsOk(raw.r) THEN raw
        ELSE IF total > 65535 /\ overflow_checks
             THEN [s |-> raw.s, r |-> Panicked]
        ELSE [s |-> raw.s,
              r |-> Ok([index_co |-> index_co,
                        num |-> lux_num, den |-> lux_den])]

\* Mutant: the high byte is masked with 0x0F.
get_ps_data_mask_0f(s, io) ==
    LET rd0 == read_register(s, PS_DATA_0, io)
    IN  IF ~IsOk(rd0.r) THEN rd0
        ELSE LET rd1 == read_register(rd0.s, PS_DATA_1, io)
                 ps0 == rd0.r.val.byte
                 ps1 == rd1.r.val.byte
                 value == Shl(BitAnd(ps1, 15), 8, 16) + ps0
                 saturated == BitAnd(ps1, R8E_PS_SATURATION)
             IN  IF ~IsOk(rd1.r) THEN rd1
                 ELSE [s |-> rd1.s,
                       r |-> Ok([value |-> value,
                                 saturated |-> saturated # 0])]

\* Returns (value, saturated).
get_ps_data(s, io) ==
    LET rd0 == read_register(s, PS_DATA_0, io)
    IN  IF ~IsOk(rd0.r) THEN rd0
        ELSE LET rd1 == read_register(rd0.s, PS_DATA_1, io)
                 ps0 == rd0.r.val.byte
                 ps1 == rd1.r.val.byte
                 value == Shl(BitAnd(ps1, 7), 8, 16) + ps0
                 saturated == BitAnd(ps1, R8E_PS_SATURATION)
             IN  IF ~IsOk(rd1.r) THEN rd1
                 ELSE [s |-> rd1.s,
                       r |-> Ok([value |-> value,
                                 saturated |-> saturated # 0])]

\* Returns (): no Result, no bus access.
Unit == [tag |-> "Unit", err |-> "none", val |-> <<>>]

\* Mutant: only the gain is reset.
reset_internal_driver_state_gain_only(s) ==
    [s |-> [s EXCEPT !.als_gain = AlsGain_default], r |-> Unit]

reset_internal_driver_state(s) ==
    [s |-> [s EXCEPT !.als_gain = AlsGain_default,
                     !.als_int = AlsIntTime_default],
     r |-> Unit]

\* Consumes the session and hands the bus back.
destroy(s) == [s |-> s, r |-> Unit]

----------------------------------------------------------------------------
(* Inputs.  An input domain D gives the sets an action draws its arguments, *)
(* the bytes read and the transport errors from, and the operations of a    *)
(* session it applies to: those after the first D.first, up to D.limit.     *)

\* Sequences of up to MaxOps operations, over sample inputs.
SeqInputs ==
    [first |-> 0,
     limit |-> MaxOps,
     errors |-> {"Nack"},
     bytes |-> {0, 255},
     channel_bytes |-> {0, 255},
     gains |-> {"Gain1x", "Gain8x", "Gain96x"},
     flags |-> {<<FALSE, FALSE>>, <<TRUE, TRUE>>},
     int_times |-> {"_100ms", "_50ms", "_350ms"},
     als_rates |-> {"_500ms"},
     ps_flags |-> {<<TRUE, TRUE>>},
     leds |-> {<<"Pulse60", "_100", "_100mA">>},
     persists |-> {<<"_3v", "_2v">>},
     interrupts |-> {<<"High", "OnlyALS">>},
     ps_rates |-> {"_10ms"},
     limits |-> {258, 65535},
     offsets |-> {0, 1023, 1024},
     pulses |-> {0, 1, 15, 16}]

\* Bytes that make the channel pairs of every coefficient row, of the
\* ratios 450, 640 and 850 exactly, and of sums above 65535.
ChannelBytes == {0, 1, 3, 9, 11, 16, 17, 128, 254, 255}

\* One operation on a new device, over wide inputs: every enumeration
\* variant, every u8, every u16 offset.
WideInputs ==
    [first |-> 0,
     limit |-> 1,
     errors |-> I2cErrors,
     bytes |-> U8,
     channel_bytes |-> ChannelBytes,
     gains |-> AlsGain,
     flags |-> BOOLEAN \X BOOLEAN,
     int_times |-> AlsIntTime,
     als_rates |-> AlsMeasRate,
     ps_flags |-> BOOLEAN \X BOOLEAN,
     leds |-> LedPulse \X LedDutyCycle \X LedCurrent,
     persists |-> Persist \X Persist,
     interrupts |-> InterruptPinPolarity \X InterruptMode,
     ps_rates |-> PsMeasRate,
     limits |-> {0, 1, 255, 256, 257, 258, 511, 1023, 1024, 4660, 32767,
                 32768, 65280, 65534, 65535},
     offsets |-> U16,
     pulses |-> U8]

\* io: the transport's outcome for each of the k transactions an operation
\* may issue.
ReadIO(D, k, bytes) == [1..k -> ReadOutcomes(bytes, D.errors)]
WriteIO(D, k) == [1..k -> WriteOutcomes(D.errors)]

----------------------------------------------------------------------------
(* The state machine *)

\* new_device(i2c, address)
Init ==
    /\ nops = 0
    /\ address \in {"Default", "Alternative(true,false)"}
    /\ als_gain = AlsGain_default
    /\ als_int = AlsIntTime_default
    /\ dev = [r \in WriteRegs |-> NoWrite]
    /\ sync_gain = "none"
    /\ sync_int = "none"
    /\ op = "new_device"
    /\ arg = <<>>
    /\ bus = <<>>
    /\ ret = Unit

\* Whether the log b holds a successful write of register reg.
Wrote(b, reg) ==
    \E i \in 1..Len(b) : b[i].kind = "write" /\ b[i].reg = reg /\ b[i].ok

\* The session is live (destroy consumes it) and has seen at least D.first
\* and fewer than D.limit operations.
CanCall(D) == op # "destroy" /\ D.first <= nops /\ nops < D.limit

\* One operation: out is what it returns for the session Self.
\* sync_gain and sync_int observe the calls and the bus, not the cache.
Do(D, name, args, out) ==
    /\ nops' = nops + 1
    /\ address' = out.s.address
    /\ als_gain' = out.s.als_gain
    /\ als_int' = out.s.als_int
    /\ dev' = out.s.dev
    /\ sync_gain' =
           IF name = "reset_internal_driver_state" THEN "none"
           ELSE IF name = "set_als_contr" /\ Wrote(out.s.bus, ALS_CONTR)
                THEN args.als_gain
           ELSE sync_gain
    /\ sync_int' =
           IF name = "reset_internal_driver_state" THEN "none"
           ELSE IF name = "set_als_meas_rate"
                   /\ Wrote(out.s.bus, ALS_MEAS_RATE)
                THEN args.als_int
           ELSE sync_int
    /\ op' = name
    /\ arg' = args
    /\ bus' = out.s.bus
    /\ ret' = out.r

GetStatus(D) ==
    /\ CanCall(D)
    /\ \E io \in ReadIO(D, 1, D.bytes) :
           Do(D, "get_status", <<>>, get_status(Self, io))

GetManufacturerId(D) ==
    /\ CanCall(D)
    /\ \E io \in ReadIO(D, 1, D.bytes) :
           Do(D, "get_manufacturer_id", <<>>, get_manufacturer_id(Self, io))

GetPartId(D) ==
    /\ CanCall(D)
    /\ \E io \in ReadIO(D, 1, D.bytes) :
           Do(D, "get_part_id", <<>>, get_part_id(Self, io))

GetAlsRawData(D) ==
    /\ CanCall(D)
    /\ \E io \in ReadIO(D, 4, D.channel_bytes) :
           Do(D, "get_als_raw_data", <<>>, get_als_raw_data(Self, io))

GetLux(D) ==
    /\ CanCall(D)
    /\ \E io \in ReadIO(D, 4, D.channel_bytes),
          overflow_checks \in BOOLEAN :
           Do(D, "get_lux", <<>>, get_lux(Self, overflow_checks, io))

GetPsData(D) ==
    /\ CanCall(D)
    /\ \E io \in ReadIO(D, 2, D.bytes) :
           Do(D, "get_ps_data", <<>>, get_ps_data(Self, io))

SetAlsContr(D) ==
    /\ CanCall(D)
    /\ \E g \in D.gains, f \in D.flags, io \in WriteIO(D, 1) :
           Do(D, "set_als_contr",
              [als_gain |-> g, sw_reset |-> f[1], als_active |-> f[2]],
              set_als_contr(Self, g, f[1], f[2], io))

SetPsContr(D) ==
    /\ CanCall(D)
    /\ \E f \in D.ps_flags, io \in WriteIO(D, 1) :
           Do(D, "set_ps_contr",
              [ps_saturation_indicator_enable |-> f[1], ps_active |-> f[2]],
              set_ps_contr(Self, f[1], f[2], io))

SetPsLed(D) ==
    /\ CanCall(D)
    /\ \E a \in D.leds, io \in WriteIO(D, 1) :
           Do(D, "set_ps_led",
              [led_pulse_freq |-> a[1], led_duty_cycle |-> a[2],
               led_peak_current |-> a[3]],
              set_ps_led(Self, a[1], a[2], a[3], io))

SetInterruptPersist(D) ==
    /\ CanCall(D)
    /\ \E a \in D.persists, io \in WriteIO(D, 1) :
           Do(D, "set_interrupt_persist",
              [als_count |-> a[1], ps_count |-> a[2]],
              set_interrupt_persist(Self, a[1], a[2], io))

SetAlsMeasRate(D) ==
    /\ CanCall(D)
    /\ \E t \in D.int_times, rate \in D.als_rates, io \in WriteIO(D, 1) :
           Do(D, "set_als_meas_rate", [als_int |-> t, als_meas_rate |-> rate],
              set_als_meas_rate(Self, t, rate, io))

SetAlsLowLimitRaw(D) ==
    /\ CanCall(D)
    /\ \E v \in D.limits, io \in WriteIO(D, 2) :
           Do(D, "set_als_low_limit_raw", [value |-> v],
              set_als_low_limit_raw(Self, v, io))

SetAlsHighLimitRaw(D) ==
    /\ CanCall(D)
    /\ \E v \in D.limits, io \in WriteIO(D, 2) :
           Do(D, "set_als_high_limit_raw", [value |-> v],
              set_als_high_limit_raw(Self, v, io))

SetPsLowLimitRaw(D) ==
    /\ CanCall(D)
    /\ \E v \in D.limits, io \in WriteIO(D, 2) :
           Do(D, "set_ps_low_limit_raw", [value |-> v],
              set_ps_low_limit_raw(Self, v, io))

SetPsHighLimitRaw(D) ==
    /\ CanCall(D)
    /\ \E v \in D.limits, io \in WriteIO(D, 2) :
           Do(D, "set_ps_high_limit_raw", [value |-> v],
              set_ps_high_limit_raw(Self, v, io))

SetPsMeasRate(D) ==
    /\ CanCall(D)
    /\ \E rate \in D.ps_rates, io \in WriteIO(D, 1) :
           Do(D, "set_ps_meas_rate", [ps_meas_rate |-> rate],
              set_ps_meas_rate(Self, rate, io))

SetPsOffset(D) ==
    /\ CanCall(D)
    /\ \E v \in D.offsets, io \in WriteIO(D, 2) :
           Do(D, "set_ps_offset", [value |-> v], set_ps_offset(Self, v, io))

SetPsNPulses(D) ==
    /\ CanCall(D)
    /\ \E v \in D.pulses, io \in WriteIO(D, 1) :
           Do(D, "set_ps_n_pulses", [value |-> v], set_ps_n_pulses(Self, v, io))

SetInterrupt(D) ==
    /\ CanCall(D)
    /\ \E a \in D.interrupts, io \in WriteIO(D, 1) :
           Do(D, "set_interrupt", [polarity |-> a[1], mode |-> a[2]],
              set_interrupt(Self, a[1], a[2], io))

ResetInternalDriverState(D) ==
    /\ CanCall(D)
    /\ Do(D, "reset_internal_driver_state", <<>>,
          reset_internal_driver_state(Self))

Destroy(D) ==
    /\ CanCall(D)
    /\ Do(D, "destroy", <<>>, destroy(Self))

Operation(D) ==
    \/ GetStatus(D)
    \/ GetManufacturerId(D)
    \/ GetPartId(D)
    \/ GetAlsRawData(D)
    \/ GetLux(D)
    \/ GetPsData(D)
    \/ SetAlsContr(D)
    \/ SetPsContr(D)
    \/ SetPsLed(D)
    \/ SetInterruptPersist(D)
    \/ SetAlsMeasRate(D)
    \/ SetAlsLowLimitRaw(D)
    \/ SetAlsHighLimitRaw(D)
    \/ SetPsLowLimitRaw(D)
    \/ SetPsHighLimitRaw(D)
    \/ SetPsMeasRate(D)
    \/ SetPsOffset(D)
    \/ SetPsNPulses(D)
    \/ SetInterrupt(D)
    \/ ResetInternalDriverState(D)
    \/ Destroy(D)

Next == Operation(SeqInputs)

Spec == Init /\ [][Next]_vars

NextWide == Operation(WideInputs)

SpecWide == Init /\ [][NextWide]_vars

\* A session whose cache was set by one successful set_als_contr or
\* set_als_meas_rate, or reset, and one operation on it: CachedFirst is the
\* input domain of the first operation, CachedSecond that of the second,
\* every enumeration variant and the channel bytes of every coefficient
\* row.
CachedFirst ==
    [first |-> 0,
     limit |-> 1,
     errors |-> {},
     gains |-> AlsGain,
     flags |-> {<<FALSE, TRUE>>},
     int_times |-> AlsIntTime,
     als_rates |-> {"_500ms"}]

CachedSecond ==
    [first |-> 1,
     limit |-> 2,
     errors |-> {"Nack"},
     bytes |-> {0, 7, 16, 32, 48, 96, 128, 255},
     channel_bytes |-> ChannelBytes,
     gains |-> AlsGain,
     flags |-> BOOLEAN \X BOOLEAN,
     int_times |-> AlsIntTime,
     als_rates |-> AlsMeasRate,
     ps_flags |-> BOOLEAN \X BOOLEAN,
     leds |-> LedPulse \X LedDutyCycle \X LedCurrent,
     persists |-> Persist \X Persist,
     interrupts |-> InterruptPinPolarity \X InterruptMode,
     ps_rates |-> PsMeasRate,
     limits |-> {258, 65535},
     offsets |-> {0, 1023, 1024},
     pulses |-> {0, 1, 15, 16}]

NextCached ==
    \/ SetAlsContr(CachedFirst)
    \/ SetAlsMeasRate(CachedFirst)
    \/ ResetInternalDriverState(CachedFirst)
    \/ Operation(CachedSecond)

SpecCached == Init /\ [][NextCached]_vars

----------------------------------------------------------------------------
(* Properties *)

\* Bit n of the byte b.
Bit(b, n) == (b \div 2^n) % 2

IsWrite(tx, reg, val) == tx.kind = "write" /\ tx.reg = reg /\ tx.val = val

IsRead(tx, reg) == tx.kind = "read" /\ tx.reg = reg

AllOk(b) == \A i \in 1..Len(b) : b[i].ok

\* The gain and the integration time encoded in the bytes last written
\* successfully to ALS_CONTR (gain in bits 2-4) and ALS_MEAS_RATE
\* (integration time in bits 3-5); the defaults when none was written.
LastWrittenGain ==
    IF dev[128] = NoWrite THEN "Gain1x"
    ELSE CHOOSE g \in AlsGain : AlsGain_value(g) = 4 * ((dev[128] \div 4) % 8)

LastWrittenIntTime ==
    IF dev[133] = NoWrite THEN "_100ms"
    ELSE CHOOSE t \in AlsIntTime : AlsIntTime_value(t) = (dev[133] \div 8) % 8

\* C1, as stated: in every reachable state the cached gain is the gain of
\* the last set_als_contr whose write succeeded and the cached integration
\* time that of the last set_als_meas_rate whose write succeeded (Gain1x,
\* 100 ms when there is none).  reset_internal_driver_state refutes it.
C1_CacheIsLastWritten ==
    als_gain = LastWrittenGain /\ als_int = LastWrittenIntTime

\* C1, amended: in every reachable state the cached gain is the gain of the
\* last set_als_contr whose write succeeded since new_device or the last
\* reset_internal_driver_state, and the cached integration time that of the
\* last such set_als_meas_rate (Gain1x, 100 ms when there is none).
C1_CacheIsLastWrittenSinceReset ==
    /\ als_gain = (IF sync_gain = "none" THEN "Gain1x" ELSE sync_gain)
    /\ als_int = (IF sync_int = "none" THEN "_100ms" ELSE sync_int)

\* A failed set_als_contr(Gain8x) after a successful set_als_contr(Gain96x):
\* the cache still holds Gain96x.
C1_Witness ==
    /\ op = "set_als_contr" /\ arg.als_gain = "Gain8x" /\ ret.tag = "I2C"
    /\ sync_gain = "Gain96x" /\ als_gain = "Gain96x"

\* C2: a set_als_contr or set_als_meas_rate whose write fails returns the
\* I2C error and leaves the cached gain and integration time as they were;
\* one whose write succeeds sets the cached gain (integration time) to its
\* argument and leaves the other cached value as it was.
C2_FailedWriteKeepsCache ==
    [][/\ op' = "set_als_contr" =>
            /\ Len(bus') = 1
            /\ IF bus'[1].ok
               THEN /\ ret'.tag = "Ok"
                    /\ als_gain' = arg'.als_gain /\ als_int' = als_int
               ELSE /\ ret' = ErrI2C(bus'[1].err)
                    /\ als_gain' = als_gain /\ als_int' = als_int
       /\ op' = "set_als_meas_rate" =>
            /\ Len(bus') = 1
            /\ IF bus'[1].ok
               THEN /\ ret'.tag = "Ok"
                    /\ als_int' = arg'.als_int /\ als_gain' = als_gain
               ELSE /\ ret' = ErrI2C(bus'[1].err)
                    /\ als_gain' = als_gain /\ als_int' = als_int]_vars

\* A failed set_als_meas_rate(50 ms) on a session whose cache holds 350 ms.
C2_Witness ==
    /\ op = "set_als_meas_rate" /\ arg.als_int = "_50ms" /\ ret.tag = "I2C"
    /\ als_int = "_350ms"

\* C3: reset_internal_driver_state sets the cached gain to Gain1x and the
\* cached integration time to 100 ms, issues no bus transaction and leaves
\* the bus address and the device registers as they were.
C3_ResetOnlyCache ==
    [][op' = "reset_internal_driver_state" =>
            /\ als_gain' = "Gain1x" /\ als_int' = "_100ms"
            /\ bus' = <<>>
            /\ address' = address /\ dev' = dev]_vars

\* reset_internal_driver_state after set_als_contr(Gain96x, false, false):
\* the register holds the Gain96x byte, the cache holds Gain1x.
C3_Witness ==
    /\ op = "reset_internal_driver_state"
    /\ dev[128] = 28 /\ als_gain = "Gain1x" /\ als_int = "_100ms"

\* C4: set_ps_offset(v) with v > 1023 returns InvalidInputData without a
\* bus write; with v <= 1023 it writes v mod 256 to 0x94, then v div 256 to
\* 0x95, and returns Ok when both writes succeed.
C4_PsOffsetRange ==
    op = "set_ps_offset" =>
        LET v == arg.value
        IN  IF v > 1023
            THEN ret = ErrInvalidInputData /\ bus = <<>> /\ dev[148] = NoWrite
            ELSE /\ Len(bus) >= 1
                 /\ IsWrite(bus[1], 148, v % 256)
                 /\ bus[1].ok =>
                        /\ Len(bus) = 2
                        /\ IsWrite(bus[2], 149, v \div 256)
                        /\ bus[2].ok => ret = Ok(<<>>)
                 /\ (v = 1023 /\ Len(bus) = 2) =>
                        bus[1].val = 255 /\ bus[2].val = 3

\* set_ps_offset(1023) succeeded, writing 0xFF then 0x03.
C4_Witness ==
    /\ op = "set_ps_offset" /\ arg.value = 1023 /\ ret.tag = "Ok"
    /\ dev[148] = 255 /\ dev[149] = 3

\* C5: set_ps_n_pulses(v) issues exactly one write of v to 0x83 when
\* 1 <= v <= 15 and returns InvalidInputData without bus access otherwise.
C5_PsNPulsesRange ==
    op = "set_ps_n_pulses" =>
        LET v == arg.value
        IN  IF 1 <= v /\ v <= 15
            THEN /\ Len(bus) = 1
                 /\ IsWrite(bus[1], 131, v)
                 /\ bus[1].ok => ret = Ok(<<>>)
            ELSE ret = ErrInvalidInputData /\ bus = <<>>

\* set_ps_n_pulses(15) succeeded.
C5_Witness ==
    op = "set_ps_n_pulses" /\ arg.value = 15 /\ ret.tag = "Ok" /\ dev[131] = 15

\* The register pair (low byte, high byte) of each threshold operation.
LimitPair(name) ==
    CASE name = "set_als_low_limit_raw" -> <<153, 154>>
      [] name = "set_als_high_limit_raw" -> <<151, 152>>
      [] name = "set_ps_low_limit_raw" -> <<146, 147>>
      [] name = "set_ps_high_limit_raw" -> <<144, 145>>

LimitOps ==
    {"set_als_low_limit_raw", "set_als_high_limit_raw",
     "set_ps_low_limit_raw", "set_ps_high_limit_raw"}

\* C6: each threshold operation writes the low byte of v to the lower
\* register of its pair and then the high byte to the next one; when the
\* first write fails the second is not attempted; when the first succeeds
\* and the second fails the operation returns an I2C error, the low
\* register holds the new byte and the high register its old one.
C6_LimitWritesNoRollback ==
    [][op' \in LimitOps =>
            LET v == arg'.value
                lo == LimitPair(op')[1]
                hi == LimitPair(op')[2]
            IN  /\ hi = lo + 1
                /\ Len(bus') >= 1
                /\ IsWrite(bus'[1], lo, v % 256)
                /\ IF ~bus'[1].ok
                   THEN Len(bus') = 1 /\ ret'.tag = "I2C" /\ dev' = dev
                   ELSE /\ Len(bus') = 2
                        /\ IsWrite(bus'[2], hi, v \div 256)
                        /\ ~bus'[2].ok =>
                               /\ ret'.tag = "I2C"
                               /\ dev'[lo] = v % 256
                               /\ dev'[hi] = dev[hi]]_vars

\* set_als_low_limit_raw(258) failed at its second write after a successful
\* set_als_low_limit_raw(65535): low register 0x02, high register still 0xFF.
C6_Witness ==
    /\ op = "set_als_low_limit_raw" /\ arg.value = 258 /\ ret.tag = "I2C"
    /\ Len(bus) = 2 /\ dev[153] = 2 /\ dev[154] = 255

\* The number of bus transactions of each operation.
Transactions(name) ==
    CASE name \in {"get_als_raw_data", "get_lux"} -> 4
      [] name \in LimitOps \cup {"set_ps_offset", "get_ps_data"} -> 2
      [] name \in {"new_device", "reset_internal_driver_state", "destroy"} -> 0
      [] OTHER -> 1

\* C7: the first failing bus transaction ends the operation, which returns
\* the I2C error wrapping that transaction's error; no transaction is
\* repeated, and an operation issues at most its fixed number of
\* transactions.
C7_FirstFailureEnds ==
    /\ \A i \in 1..Len(bus) :
           ~bus[i].ok => i = Len(bus) /\ ret = ErrI2C(bus[i].err)
    /\ ret.tag = "I2C" => Len(bus) >= 1 /\ ~bus[Len(bus)].ok
    /\ \A i, j \in 1..Len(bus) : i # j => bus[i].reg # bus[j].reg
    /\ Len(bus) <= Transactions(op)

\* get_als_raw_data whose third read failed: three transactions, and the
\* transport's error returned.
C7_Witness ==
    /\ op = "get_als_raw_data" /\ Len(bus) = 3 /\ ~bus[3].ok
    /\ bus[3].err = "ArbitrationLoss" /\ ret = ErrI2C("ArbitrationLoss")

\* C8: get_als_raw_data reads 0x88, 0x89, 0x8A, 0x8B in that order and, when
\* all four reads succeed, returns (byte(0x8B)*256 + byte(0x8A),
\* byte(0x89)*256 + byte(0x88)).
C8_RawDataAssembly ==
    op = "get_als_raw_data" =>
        /\ Len(bus) >= 1
        /\ \A i \in 1..Len(bus) : IsRead(bus[i], 135 + i)
        /\ AllOk(bus) =>
               /\ Len(bus) = 4
               /\ ret = Ok([ch0 |-> bus[4].val * 256 + bus[3].val,
                             ch1 |-> bus[2].val * 256 + bus[1].val])

\* Bytes 0x01, 0x03, 0x09, 0x0B read: channel0 = 0x0B09, channel1 = 0x0301.
C8_Witness ==
    /\ op = "get_als_raw_data" /\ Len(bus) = 4 /\ AllOk(bus)
    /\ bus[1].val = 1 /\ bus[2].val = 3 /\ bus[3].val = 9 /\ bus[4].val = 11
    /\ ret.val = [ch0 |-> 2825, ch1 |-> 769]

\* C9: get_status reads 0x8C once and decodes the byte b: als_data_valid is
\* "bit 7 clear", als_gain is bits 4-6, the four status flags are bits 3, 2,
\* 1, 0; 0x80 gives als_data_valid = false and 0x00 gives true.
C9_StatusDecoding ==
    op = "get_status" =>
        /\ Len(bus) = 1
        /\ IsRead(bus[1], 140)
        /\ bus[1].ok =>
               LET b == bus[1].val
               IN  /\ ret = Ok([als_data_valid |-> Bit(b, 7) = 0,
                                als_gain |-> (b \div 16) % 8,
                                als_interrupt_status |-> Bit(b, 3) = 1,
                                als_data_status |-> Bit(b, 2) = 1,
                                ps_interrupt_status |-> Bit(b, 1) = 1,
                                ps_data_status |-> Bit(b, 0) = 1])
                   /\ b = 128 => ~ret.val.als_data_valid
                   /\ b = 0 => ret.val.als_data_valid

\* The status byte 0x80 decoded: data not valid.
C9_Witness ==
    /\ op = "get_status" /\ ret.tag = "Ok" /\ bus[1].val = 128
    /\ ~ret.val.als_data_valid

\* The coefficient row the claim gives the readings (ch0, ch1): from the
\* ratio 1000 when both are 0 and ch1 * 1000 / (ch1 + ch0) otherwise.
RowOfRatio(ch0, ch1) ==
    IF ch0 = 0 /\ ch1 = 0 THEN 3
    ELSE IF ch1 * 1000 < 450 * (ch1 + ch0) THEN 0
    ELSE IF ch1 * 1000 < 640 * (ch1 + ch0) THEN 1
    ELSE IF ch1 * 1000 < 850 * (ch1 + ch0) THEN 2
    ELSE 3

\* C10, as stated: for every pair of channel readings, sums above 65535
\* included, a get_lux that returns has selected the row of the ratio
\* channel1 * 1000 / (channel1 + channel0).  The u16 sum refutes it.
C10_RowFromRatio ==
    (op = "get_lux" /\ ret.tag = "Ok") =>
        ret.val.index_co =
            RowOfRatio(bus[4].val * 256 + bus[3].val,
                       bus[2].val * 256 + bus[1].val)

\* C11, as stated: no public operation aborts: whatever the arguments, the
\* channel readings and the transport outcomes are, each operation returns,
\* with Ok or with an Error (I2C or InvalidInputData).  The u16 sum of
\* get_lux refutes it in a build with overflow checks.
C11_NoAbort ==
    ret.tag \in {"Unit", "Ok", "I2C", "InvalidInputData"}

\* C12, as stated: get_lux returns exactly 0 when both channel readings are
\* 0, and returns 0 for every pair of readings whose ratio
\* channel1 * 1000 / (channel1 + channel0) is at least 850, whatever the raw
\* counts are.  Readings whose sum exceeds 65535 refute it in a build with
\* overflow checks, where get_lux returns nothing.
C12_ZeroInRow3 ==
    (op = "get_lux" /\ Len(bus) = 4 /\ AllOk(bus)) =>
        LET ch0 == bus[4].val * 256 + bus[3].val
            ch1 == bus[2].val * 256 + bus[1].val
        IN  ((ch0 = 0 /\ ch1 = 0) \/ ch1 * 1000 >= 850 * (ch1 + ch0)) =>
                /\ ret.tag = "Ok"
                /\ ret.val.num = Limbs(0, 0)

\* The lux factors and the coefficient rows as C13 gives them; the factor
\* of the integration time is counted in halves (0.5 is 1, 4 is 8).
LuxIntHalves(t) ==
    CASE t = "_50ms" -> 1
      [] t = "_100ms" -> 2
      [] t = "_150ms" -> 3
      [] t = "_200ms" -> 4
      [] t = "_250ms" -> 5
      [] t = "_300ms" -> 6
      [] t = "_350ms" -> 7
      [] t = "_400ms" -> 8

LuxGainFactor(g) ==
    CASE g = "Gain1x" -> 1
      [] g = "Gain2x" -> 2
      [] g = "Gain4x" -> 4
      [] g = "Gain8x" -> 8
      [] g = "Gain48x" -> 48
      [] g = "Gain96x" -> 96

LuxRows ==
    <<<<17743, 0 - 11059>>, <<42785, 19548>>, <<5926, 0 - 1185>>, <<0, 0>>>>

\* C13: a successful get_lux returns
\* (channel0 * ch0_coeff - channel1 * ch1_coeff) / 10000 divided by the lux
\* factor of the cached integration time and by the lux factor of the cached
\* gain, with the coefficients of the row it selected, and leaves the cache
\* as it was.  The value is compared as the fraction num/den, with the
\* numerator doubled when the integration-time factor is an odd number of
\* halves.
C13_LuxFormula ==
    [][(op' = "get_lux" /\ ret'.tag = "Ok") =>
           LET ch0 == bus'[4].val * 256 + bus'[3].val
               ch1 == bus'[2].val * 256 + bus'[1].val
               row == LuxRows[ret'.val.index_co + 1]
               h == LuxIntHalves(als_int)
               g == LuxGainFactor(als_gain)
               raw == MulSub(ch0, row[1], ch1, row[2])
           IN  /\ als_gain' = als_gain /\ als_int' = als_int
               /\ IF h % 2 = 1
                  THEN /\ ret'.val.num = Scale(raw, 2)
                       /\ ret'.val.den = 10000 * h * g
                  ELSE /\ ret'.val.num = raw
                       /\ ret'.val.den = 10000 * (h \div 2) * g]_vars

\* get_lux on a session whose cache holds Gain48x, with channel0 = 17 and
\* channel1 = 16: row 1, 17 * 42785 - 16 * 19548 = 414577, over 480000.
C13_Witness ==
    /\ op = "get_lux" /\ ret.tag = "Ok" /\ als_gain = "Gain48x"
    /\ ret.val.index_co = 1
    /\ ret.val.num = Limbs(4145, 77) /\ ret.val.den = 480000

\* The 3-bit code of each gain.
GainCode(g) ==
    CASE g = "Gain1x" -> 0
      [] g = "Gain2x" -> 1
      [] g = "Gain4x" -> 2
      [] g = "Gain8x" -> 3
      [] g = "Gain48x" -> 6
      [] g = "Gain96x" -> 7

\* 1 for TRUE, 0 for FALSE.
B2N(b) == IF b THEN 1 ELSE 0

\* C14, as stated: set_als_contr issues one write, to register 0x80, of the
\* byte with the gain's code in bits 4-6, sw_reset in bit 1, als_active in
\* bit 0 and no other bit set.  The code puts the gain in bits 2-4.
C14_GainInBits4To6 ==
    (op = "set_als_contr") =>
        /\ Len(bus) = 1
        /\ IsWrite(bus[1], 128,
                   GainCode(arg.als_gain) * 16 + B2N(arg.sw_reset) * 2
                       + B2N(arg.als_active))

\* C14, amended: set_als_contr issues one write, to register 0x80, of the
\* byte with the gain's code in bits 2-4, sw_reset in bit 1, als_active in
\* bit 0 and no other bit set.
C14_GainInBits2To4 ==
    (op = "set_als_contr") =>
        /\ Len(bus) = 1
        /\ IsWrite(bus[1], 128,
                   GainCode(arg.als_gain) * 4 + B2N(arg.sw_reset) * 2
                       + B2N(arg.als_active))

\* set_als_contr(Gain48x, true, false) writes 0b11010.
C14_Witness ==
    /\ op = "set_als_contr"
    /\ arg = [als_gain |-> "Gain48x", sw_reset |-> TRUE, als_active |-> FALSE]
    /\ Len(bus) = 1 /\ bus[1].ok /\ bus[1].val = 26

\* C15: get_ps_data reads register 0x8D and then register 0x8E; for every
\* pair of bytes (low, high) read it returns value = low + (high AND 7) * 256,
\* which lies in 0..2047, and saturated = bit 7 of high; bits 3-6 of high
\* have no part in the result.
C15_PsDataDecoding ==
    (op = "get_ps_data") =>
        /\ Len(bus) \in 1..2
        /\ IsRead(bus[1], 141)
        /\ bus[1].ok => (Len(bus) = 2 /\ IsRead(bus[2], 142))
        /\ AllOk(bus) =>
               LET low == bus[1].val
                   high == bus[2].val
               IN  /\ ret = Ok([value |-> low + (high % 8) * 256,
                                saturated |-> Bit(high, 7) = 1])
                   /\ ret.val.value \in 0..2047

\* The bytes 0xFF, 0x7F: bits 3-6 of the high byte are set, the value is
\* 2047 and the data is not saturated.
C15_Witness ==
    /\ op = "get_ps_data" /\ Len(bus) = 2 /\ AllOk(bus)
    /\ bus[1].val = 255 /\ bus[2].val = 127
    /\ ret.val = [value |-> 2047, saturated |-> FALSE]

\* The register and the byte C16 gives each encode-and-write operation, from
\* the arguments a: every field is the code of its argument at the field's
\* bit positions.
EncodeOps ==
    {"set_ps_contr", "set_ps_led", "set_interrupt_persist", "set_interrupt",
     "set_ps_meas_rate"}

EncodeReg(name) ==
    CASE name = "set_ps_contr" -> 129
      [] name = "set_ps_led" -> 130
      [] name = "set_interrupt_persist" -> 158
      [] name = "set_interrupt" -> 143
      [] name = "set_ps_meas_rate" -> 132

\* The fields of the byte, each as <<code, lowest bit, width>>.
EncodeFields(name, a) ==
    CASE name = "set_ps_contr" ->
             <<<<B2N(a.ps_saturation_indicator_enable), 5, 1>>,
               <<3 * B2N(a.ps_active), 0, 2>>>>
      [] name = "set_ps_led" ->
             <<<<Shr(LedPulse_value(a.led_pulse_freq), 5), 5, 3>>,
               <<Shr(LedDutyCycle_value(a.led_duty_cycle), 3), 3, 2>>,
               <<LedCurrent_value(a.led_peak_current), 0, 3>>>>
      [] name = "set_interrupt_persist" ->
             <<<<Shr(PsPersist_value(a.ps_count), 4), 4, 4>>,
               <<AlsPersist_value(a.als_count), 0, 4>>>>
      [] name = "set_interrupt" ->
             <<<<InterruptMode_value(a.mode), 0, 2>>,
               <<Shr(InterruptPinPolarity_value(a.polarity), 2), 2, 1>>>>
      [] name = "set_ps_meas_rate" ->
             <<<<PsMeasRate_value(a.ps_meas_rate), 0, 8>>>>

\* The function f, from the variants of an enumeration to their codes, is
\* one-to-one.
Distinct(f) == \A x, y \in DOMAIN f : f[x] = f[y] => x = y

RECURSIVE FieldSum(_, _)
FieldSum(fields, i) ==
    IF i > Len(fields) THEN 0
    ELSE fields[i][1] * 2^(fields[i][2]) + FieldSum(fields, i + 1)

\* C16: set_ps_contr, set_ps_led, set_interrupt_persist, set_interrupt and
\* set_ps_meas_rate each issue exactly one write, to 0x81, 0x82, 0x9E, 0x8F
\* and 0x84, of the byte made of the codes of their arguments at the stated
\* bit positions; each code fits its field, an encoder's value has no bit
\* outside its field, and distinct variants have distinct codes, so
\* distinct argument tuples give distinct bytes; the cached gain and
\* integration time are as before whether the write succeeds or fails.
C16_EncodeAndWrite ==
    [][op' \in EncodeOps =>
           LET fields == EncodeFields(op', arg')
           IN  /\ Len(bus') = 1
               /\ IsWrite(bus'[1], EncodeReg(op'), FieldSum(fields, 1))
               /\ \A i \in 1..Len(fields) :
                      fields[i][1] \in 0..(2^(fields[i][3]) - 1)
               /\ op' = "set_ps_led" =>
                      /\ LedPulse_value(arg'.led_pulse_freq) % 32 = 0
                      /\ LedDutyCycle_value(arg'.led_duty_cycle) % 8 = 0
                      /\ Distinct([x \in LedPulse |-> LedPulse_value(x)])
                      /\ Distinct([x \in LedDutyCycle |->
                                      LedDutyCycle_value(x)])
                      /\ Distinct([x \in LedCurrent |-> LedCurrent_value(x)])
               /\ op' = "set_interrupt_persist" =>
                      /\ PsPersist_value(arg'.ps_count) % 16 = 0
                      /\ Distinct([x \in Persist |-> PsPersist_value(x)])
                      /\ Distinct([x \in Persist |-> AlsPersist_value(x)])
               /\ op' = "set_interrupt" =>
                      /\ InterruptPinPolarity_value(arg'.polarity) % 4 = 0
                      /\ Distinct([x \in InterruptMode |->
                                      InterruptMode_value(x)])
                      /\ Distinct([x \in InterruptPinPolarity |->
                                      InterruptPinPolarity_value(x)])
               /\ op' = "set_ps_meas_rate" =>
                      Distinct([x \in PsMeasRate |-> PsMeasRate_value(x)])
               /\ ret' = (IF bus'[1].ok THEN Ok(<<>>)
                          ELSE ErrI2C(bus'[1].err))
               /\ als_gain' = als_gain /\ als_int' = als_int]_vars

\* A failed set_interrupt_persist(ALS 16, PS 2) on a session whose cache
\* holds Gain96x: the byte offered to 0x9E is 0x1F.
C16_Witness ==
    /\ op = "set_interrupt_persist"
    /\ arg = [als_count |-> "_16v", ps_count |-> "_2v"]
    /\ Len(bus) = 1 /\ ~bus[1].ok /\ bus[1].reg = 158 /\ bus[1].val = 31
    /\ als_gain = "Gain96x"

\* C17: AlsGain::value maps Gain1x, 2x, 4x, 8x, 48x, 96x one-to-one onto
\* 0, 4, 8, 12, 24, 28, the 3-bit codes 0, 1, 2, 3, 6, 7 shifted left by 2,
\* and the lux factor maps them onto 1, 2, 4, 8, 48, 96; and when get_status
\* reads a status byte whose bits 4-6 hold the code last written to bits 2-4
\* of ALS_CONTR by set_als_contr, the als_gain it returns is value() >> 2 of
\* the gain written and belongs to no other gain.
C17_GainRoundTrip ==
    /\ \A g \in AlsGain :
           /\ AlsGain_value(g) = GainCode(g) * 4
           /\ AlsGain_value(g) \in {0, 4, 8, 12, 24, 28}
           /\ AlsGain_lux_compute_value(g) =
                  [num |-> LuxGainFactor(g), den |-> 1]
    /\ Distinct([x \in AlsGain |-> AlsGain_value(x)])
    /\ Distinct([x \in AlsGain |-> LuxGainFactor(x)])
    /\ (/\ op = "get_status" /\ ret.tag = "Ok"
        /\ dev[128] # NoWrite /\ sync_gain # "none"
        /\ (bus[1].val \div 16) % 8 = (dev[128] \div 4) % 8) =>
           /\ ret.val.als_gain = Shr(AlsGain_value(sync_gain), 2)
           /\ \A g \in AlsGain :
                  Shr(AlsGain_value(g), 2) = ret.val.als_gain
                      => g = sync_gain

\* get_status reads 0x60 after set_als_contr(Gain48x, false, true) wrote
\* 0x19: the status reports code 6.
C17_Witness ==
    /\ op = "get_status" /\ ret.tag = "Ok" /\ bus[1].val = 96
    /\ dev[128] = 25 /\ sync_gain = "Gain48x" /\ ret.val.als_gain = 6

\* C18: a successful get_lux returns a value >= 0, whatever the channel
\* readings and the cached gain and integration time are: in the row it
\* selects, channel0 * ch0_coeff - channel1 * ch1_coeff is not negative.
C18_LuxNotNegative ==
    (op = "get_lux" /\ ret.tag = "Ok") =>
        LET ch0 == bus[4].val * 256 + bus[3].val
            ch1 == bus[2].val * 256 + bus[1].val
            row == LuxRows[ret.val.index_co + 1]
        IN  /\ MulSub(ch0, row[1], ch1, row[2]).hi >= 0
            /\ ret.val.num.hi >= 0
            /\ ret.val.den > 0

\* Row 1, whose channel-1 coefficient is positive, at channel0 = 9 and
\* channel1 = 11 (ratio 550) on a session whose cache holds 50 ms:
\* 9 * 42785 - 11 * 19548 = 170037, doubled over 10000.
C18_Witness ==
    /\ op = "get_lux" /\ ret.tag = "Ok" /\ als_int = "_50ms"
    /\ bus[3].val = 9 /\ bus[4].val = 0 /\ bus[1].val = 11 /\ bus[2].val = 0
    /\ ret.val = [index_co |-> 1, num |-> Limbs(3400, 74), den |-> 10000]

====
